---- MODULE Spec2Model ----
(***************************************************************************)
(* Verification model of SC_VALL-E's text front end:                       *)
(*   - the Vietnamese syllable codec, class VietnameseTextProcessor of     *)
(*     vall_e/emb/G2P/ViG2Padvanced.py;                                    *)
(*   - the batch drivers, main() of vall_e/emb/g2p_vn.py and g2p.py.       *)
(*                                                                         *)
(* A Python str is modelled as the sequence of its Unicode code points     *)
(* (<<116, 105>> is "ti"), a one-character str as a sequence of length 1.  *)
(* An Optional[str] is <<>> for None and <<s>> for the string s.           *)
(***************************************************************************)
EXTENDS Integers, Sequences, FiniteSets, TLC

\* The codec: the instance, and the last call made on it.
VARIABLES self, args, op, ret, calls

\* The batch driver: its command line, the file system, and the workers.
VARIABLES out_dir, read_only, files, worker, opened

codec_vars == <<self, args, op, ret, calls>>

batch_vars == <<out_dir, read_only, files, worker, opened>>

vars == <<codec_vars, batch_vars>>

(***************************************************************************)
(* Class attributes of VietnameseTextProcessor.                            *)
(***************************************************************************)
\* Component types (0x001, 0x010, 0x100).
INITIAL == 1
MEDIAL == 16
FINAL == 256

\* Syllable components.  The first 72 MEDIAL entries are the 12 vowels, each
\* as a row of six: the bare vowel, then the vowel with U+0300, U+0301,
\* U+0309, U+0303, U+0323 in precomposed (NFC) form; the last three are the
\* compound vowels "ia", U+01B0 "a", "ua".
CHAR_LISTS ==
    (INITIAL :> <<
        <<98>>, <<99, 104>>, <<100>>, <<273>>, <<103>>, <<103, 104>>, <<103, 105>>, <<104>>,
        <<107>>, <<107, 104>>, <<108>>, <<109>>, <<110>>, <<110, 104>>, <<110, 103>>, <<110, 103, 104>>,
        <<112, 104>>, <<113, 117>>, <<114>>, <<115>>, <<116>>, <<116, 104>>, <<116, 114>>, <<118>>,
        <<120>> >>)
    @@ (MEDIAL :> <<
        <<97>>, <<224>>, <<225>>, <<7843>>, <<227>>, <<7841>>,
        <<259>>, <<7857>>, <<7855>>, <<7859>>, <<7861>>, <<7863>>,
        <<226>>, <<7847>>, <<7845>>, <<7849>>, <<7851>>, <<7853>>,
        <<101>>, <<232>>, <<233>>, <<7867>>, <<7869>>, <<7865>>,
        <<234>>, <<7873>>, <<7871>>, <<7875>>, <<7877>>, <<7879>>,
        <<105>>, <<236>>, <<237>>, <<7881>>, <<297>>, <<7883>>,
        <<111>>, <<242>>, <<243>>, <<7887>>, <<245>>, <<7885>>,
        <<244>>, <<7891>>, <<7889>>, <<7893>>, <<7895>>, <<7897>>,
        <<417>>, <<7901>>, <<7899>>, <<7903>>, <<7905>>, <<7907>>,
        <<117>>, <<249>>, <<250>>, <<7911>>, <<361>>, <<7909>>,
        <<432>>, <<7915>>, <<7913>>, <<7917>>, <<7919>>, <<7921>>,
        <<121>>, <<7923>>, <<253>>, <<7927>>, <<7929>>, <<7925>>,
        <<105, 97>>, <<432, 97>>, <<117, 97>> >>)
    @@ (FINAL :> <<
        <<99>>, <<99, 104>>, <<109>>, <<110>>, <<110, 103>>, <<110, 104>>, <<112>>, <<116>> >>)

\* Tone marks: tone name -> combining diacritic ("ngang" -> "", "huy" U+1EC1
\* "n" -> U+0300, "s" U+1EAF "c" -> U+0301, "h" U+1ECF "i" -> U+0309,
\* "ng" U+00E3 -> U+0303, "n" U+1EB7 "ng" -> U+0323).
TONE_MARKS ==
    (<<110, 103, 97, 110, 103>> :> <<>>) @@ (<<104, 117, 121, 7873, 110>> :> <<768>>)
    @@ (<<115, 7855, 99>> :> <<769>>) @@ (<<104, 7887, 105>> :> <<777>>)
    @@ (<<110, 103, 227>> :> <<771>>) @@ (<<110, 7863, 110, 103>> :> <<803>>)

\* Vowel to base form: precomposed toned vowel -> the vowel without its tone.
VOWEL_TO_BASE ==
    (<<224>> :> <<97>>) @@ (<<225>> :> <<97>>) @@ (<<7843>> :> <<97>>) @@ (<<227>> :> <<97>>) @@ (<<7841>> :> <<97>>)
    @@ (<<7857>> :> <<259>>) @@ (<<7855>> :> <<259>>) @@ (<<7859>> :> <<259>>) @@ (<<7861>> :> <<259>>) @@ (<<7863>> :> <<259>>)
    @@ (<<7847>> :> <<226>>) @@ (<<7845>> :> <<226>>) @@ (<<7849>> :> <<226>>) @@ (<<7851>> :> <<226>>) @@ (<<7853>> :> <<226>>)
    @@ (<<232>> :> <<101>>) @@ (<<233>> :> <<101>>) @@ (<<7867>> :> <<101>>) @@ (<<7869>> :> <<101>>) @@ (<<7865>> :> <<101>>)
    @@ (<<7873>> :> <<234>>) @@ (<<7871>> :> <<234>>) @@ (<<7875>> :> <<234>>) @@ (<<7877>> :> <<234>>) @@ (<<7879>> :> <<234>>)
    @@ (<<236>> :> <<105>>) @@ (<<237>> :> <<105>>) @@ (<<7881>> :> <<105>>) @@ (<<297>> :> <<105>>) @@ (<<7883>> :> <<105>>)
    @@ (<<242>> :> <<111>>) @@ (<<243>> :> <<111>>) @@ (<<7887>> :> <<111>>) @@ (<<245>> :> <<111>>) @@ (<<7885>> :> <<111>>)
    @@ (<<7891>> :> <<244>>) @@ (<<7889>> :> <<244>>) @@ (<<7893>> :> <<244>>) @@ (<<7895>> :> <<244>>) @@ (<<7897>> :> <<244>>)
    @@ (<<7901>> :> <<417>>) @@ (<<7899>> :> <<417>>) @@ (<<7903>> :> <<417>>) @@ (<<7905>> :> <<417>>) @@ (<<7907>> :> <<417>>)
    @@ (<<249>> :> <<117>>) @@ (<<250>> :> <<117>>) @@ (<<7911>> :> <<117>>) @@ (<<361>> :> <<117>>) @@ (<<7909>> :> <<117>>)
    @@ (<<7915>> :> <<432>>) @@ (<<7913>> :> <<432>>) @@ (<<7917>> :> <<432>>) @@ (<<7919>> :> <<432>>) @@ (<<7921>> :> <<432>>)
    @@ (<<7923>> :> <<121>>) @@ (<<253>> :> <<121>>) @@ (<<7927>> :> <<121>>) @@ (<<7929>> :> <<121>>) @@ (<<7925>> :> <<121>>)

\* The class object: the attributes every instance starts from.
VietnameseTextProcessor ==
    [ CHAR_LISTS |-> CHAR_LISTS,
      TONE_MARKS |-> TONE_MARKS,
      VOWEL_TO_BASE |-> VOWEL_TO_BASE ]

(***************************************************************************)
(* Built-ins of Python the codec relies on.                                *)
(***************************************************************************)
None == <<>>

Some(s) == <<s>>

\* Truth value of an Optional[str] ("if initial:"): None and "" are false.
truthy(o) == o # None /\ o[1] # <<>>

Range(f) == { f[k] : k \in DOMAIN f }

\* enumerate(v): entry -> 0-based index (the last index for a repeated entry).
enumerate(v) ==
    [ c \in Range(v) |-> (CHOOSE i \in DOMAIN v :
                            v[i] = c /\ \A j \in DOMAIN v : v[j] = c => j <= i) - 1 ]

\* str.lower() of one code point.  Exact on U+0000..U+00FF, on the letters of
\* the tables above and their capitals, and on U+1EA0..U+1EF9.
lower_char(c) ==
    IF c >= 65 /\ c <= 90 THEN c + 32
    ELSE IF c >= 192 /\ c <= 222 /\ c # 215 THEN c + 32
    ELSE IF c \in {258, 272, 296, 360, 416, 431} THEN c + 1
    ELSE IF c >= 7840 /\ c <= 7929 /\ c % 2 = 0 THEN c + 1
    ELSE c

lower(s) == [ k \in 1..Len(s) |-> lower_char(s[k]) ]

\* str.isspace() of one code point: what str.split() splits on.
isspace(c) ==
    \/ c \in 9..13 \/ c \in 28..32 \/ c \in {133, 160, 5760}
    \/ c \in 8192..8202 \/ c \in {8232, 8233, 8239, 8287, 12288}

startswith(s, p) == Len(p) <= Len(s) /\ SubSeq(s, 1, Len(p)) = p

endswith(s, p) == Len(p) <= Len(s) /\ SubSeq(s, Len(s) - Len(p) + 1, Len(s)) = p

\* s[n:]
drop(s, n) == SubSeq(s, n + 1, Len(s))

\* s[:-n], n > 0
drop_last(s, n) == SubSeq(s, 1, Len(s) - n)

\* str.split(): the maximal runs of non-whitespace, in order.
RECURSIVE split_from(_, _, _)
split_from(s, k, word) ==
    IF k > Len(s) THEN (IF word = <<>> THEN <<>> ELSE <<word>>)
    ELSE IF isspace(s[k])
         THEN (IF word = <<>> THEN <<>> ELSE <<word>>) \o split_from(s, k + 1, <<>>)
         ELSE split_from(s, k + 1, Append(word, s[k]))

str_split(s) == split_from(s, 1, <<>>)

\* sep.join(words)
RECURSIVE str_join(_, _)
str_join(sep, words) ==
    IF words = <<>> THEN <<>>
    ELSE IF Len(words) = 1 THEN words[1]
    ELSE words[1] \o sep \o str_join(sep, Tail(words))

\* ''.join(words)
concat(words) == str_join(<<>>, words)

\* sorted(v, key=len, reverse=True): longest first, and, the sort being
\* stable, entries of one length in the order of v.
RECURSIVE by_len_from(_, _)
by_len_from(v, n) ==
    IF n = 0 THEN SelectSeq(v, LAMBDA x : Len(x) = 0)
    ELSE SelectSeq(v, LAMBDA x : Len(x) = n) \o by_len_from(v, n - 1)

max_len(v) == IF v = <<>> THEN 0
              ELSE CHOOSE n \in { Len(v[k]) : k \in DOMAIN v } :
                     \A k \in DOMAIN v : Len(v[k]) <= n

\* The list as it is declared, not sorted: a scan in table order.
in_table_order(v) == v

sorted_by_len_desc(v) == by_len_from(v, max_len(v))

\* dict.get(key, default)
dict_get(d, key, default) == IF key \in DOMAIN d THEN d[key] ELSE default

(***************************************************************************)
(* VietnameseTextProcessor: the methods.                                   *)
(***************************************************************************)
\* __init__: the instance, the class attributes plus the derived indices.
__init__(cls) ==
    [ CHAR_LISTS |-> cls.CHAR_LISTS,
      TONE_MARKS |-> cls.TONE_MARKS,
      VOWEL_TO_BASE |-> cls.VOWEL_TO_BASE,
      CHAR_SETS |-> [ k \in DOMAIN cls.CHAR_LISTS |-> Range(cls.CHAR_LISTS[k]) ],
      CHARSET |-> UNION { Range(cls.CHAR_LISTS[k]) : k \in DOMAIN cls.CHAR_LISTS },
      CHAR_INDICES |-> [ k \in DOMAIN cls.CHAR_LISTS |-> enumerate(cls.CHAR_LISTS[k]) ] ]

\* re.match of '^(?:initials)?(?:medials)(?:finals)?' anchored at the start of
\* t and ending exactly at the end of t: some initial or none, one medial, some
\* final or none (the matcher backtracks over the alternatives).
match_to_end(slf, t) ==
    \E i \in {<<>>} \cup { x \in Range(slf.CHAR_LISTS[INITIAL]) : startswith(t, x) } :
        \E m \in { x \in Range(slf.CHAR_LISTS[MEDIAL]) : startswith(drop(t, Len(i)), x) } :
            LET rest == drop(t, Len(i) + Len(m))
            IN  rest = <<>> \/ rest \in Range(slf.CHAR_LISTS[FINAL])

\* The pattern ends in '$', which matches at the end of the string and also
\* just before a newline that ends the string.
re_match(slf, t) ==
    \/ match_to_end(slf, t)
    \/ /\ t # <<>>
       /\ t[Len(t)] = 10
       /\ match_to_end(slf, drop_last(t, 1))

is_vietnamese_syllable(slf, text) ==
    IF text = <<>> THEN FALSE ELSE re_match(slf, lower(text))

normalize_char(slf, char) == dict_get(slf.VOWEL_TO_BASE, char, char)

\* The scan of get_tone from character k on.
RECURSIVE get_tone_from(_, _, _)
get_tone_from(slf, syllable, k) ==
    IF k > Len(syllable) THEN <<>>
    ELSE LET char == <<syllable[k]>>
             normalized == normalize_char(slf, char)
         IN  IF normalized # char
             THEN drop(char, Len(normalized))
             ELSE get_tone_from(slf, syllable, k + 1)

get_tone(slf, syllable) == get_tone_from(slf, syllable, 1)

\* "for cons in v: if <cons matches>: ... break": the first entry of the list
\* v, in order, among those that match, or None.
first_match(v, matching) ==
    IF \E k \in DOMAIN v : v[k] \in matching
    THEN Some(v[CHOOSE k \in DOMAIN v :
                  v[k] \in matching /\ \A j \in DOMAIN v : v[j] \in matching => k <= j])
    ELSE None

\* split_syllable_char without "syllable = syllable[:-len(cons)]": the final
\* consonant is found and left in the medial.
split_syllable_char_keeps_final(slf, syllable) ==
    LET s0 == lower(syllable)
        initial == first_match(sorted_by_len_desc(slf.CHAR_LISTS[INITIAL]),
                               { cons \in Range(slf.CHAR_LISTS[INITIAL]) : startswith(s0, cons) })
        s1 == IF initial = None THEN s0 ELSE drop(s0, Len(initial[1]))
        final == first_match(sorted_by_len_desc(slf.CHAR_LISTS[FINAL]),
                             { cons \in Range(slf.CHAR_LISTS[FINAL]) : endswith(s1, cons) })
    IN  <<initial, s1, final>>

\* Returns the tuple (initial, medial, final).
split_syllable_char(slf, syllable) ==
    LET s0 == lower(syllable)
        initial == first_match(sorted_by_len_desc(slf.CHAR_LISTS[INITIAL]),
                               { cons \in Range(slf.CHAR_LISTS[INITIAL]) : startswith(s0, cons) })
        s1 == IF initial = None THEN s0 ELSE drop(s0, Len(initial[1]))
        final == first_match(sorted_by_len_desc(slf.CHAR_LISTS[FINAL]),
                             { cons \in Range(slf.CHAR_LISTS[FINAL]) : endswith(s1, cons) })
        s2 == IF final = None THEN s1 ELSE drop_last(s1, Len(final[1]))
    IN  <<initial, s2, final>>

\* The 0-based index of the first character that is a toned vowel or an entry
\* of the medial list, or -1.
_find_main_vowel_index(slf, syllable) ==
    LET hit(k) == LET c == lower(<<syllable[k]>>)
                  IN  c \in DOMAIN slf.VOWEL_TO_BASE \/ c \in Range(slf.CHAR_LISTS[MEDIAL])
    IN  IF \E k \in 1..Len(syllable) : hit(k)
        THEN (CHOOSE k \in 1..Len(syllable) :
                hit(k) /\ \A j \in 1..Len(syllable) : hit(j) => k <= j) - 1
        ELSE -1

_apply_tone(slf, vowel, tone) ==
    LET base == normalize_char(slf, vowel)
    IN  IF base # <<>> THEN base \o tone ELSE vowel

\* initial, final and tone are Optional[str]; medial is a str.
join_syllable_char(slf, initial, medial, final, tone) ==
    LET result == (IF truthy(initial) THEN initial[1] ELSE <<>>)
                  \o medial
                  \o (IF truthy(final) THEN final[1] ELSE <<>>)
        main_vowel_idx == _find_main_vowel_index(slf, result)
    IN  IF truthy(tone) /\ main_vowel_idx >= 0
        THEN SubSeq(result, 1, main_vowel_idx)
             \o _apply_tone(slf, <<result[main_vowel_idx + 1]>>, tone[1])
             \o drop(result, main_vowel_idx + 1)
        ELSE result

\* The local tables of the _convert_*_to_ipa methods.
initial_ipa_map ==
    (<<98>> :> <<98>>) @@ (<<99, 104>> :> <<99>>) @@ (<<100>> :> <<122>>) @@ (<<273>> :> <<100>>)
    @@ (<<103>> :> <<611>>) @@ (<<103, 104>> :> <<611>>) @@ (<<103, 105>> :> <<122>>) @@ (<<104>> :> <<104>>)
    @@ (<<107>> :> <<107>>) @@ (<<107, 104>> :> <<120>>) @@ (<<108>> :> <<108>>) @@ (<<109>> :> <<109>>)
    @@ (<<110>> :> <<110>>) @@ (<<110, 104>> :> <<626>>) @@ (<<110, 103>> :> <<331>>) @@ (<<110, 103, 104>> :> <<331>>)
    @@ (<<112, 104>> :> <<102>>) @@ (<<113, 117>> :> <<107, 119>>) @@ (<<114>> :> <<656>>) @@ (<<115>> :> <<115>>)
    @@ (<<116>> :> <<116>>) @@ (<<116, 104>> :> <<116, 688>>) @@ (<<116, 114>> :> <<648>>) @@ (<<118>> :> <<118>>)
    @@ (<<120>> :> <<115>>)

medial_ipa_map ==
    (<<97>> :> <<97>>) @@ (<<259>> :> <<230>>) @@ (<<226>> :> <<601>>) @@ (<<101>> :> <<603>>)
    @@ (<<234>> :> <<101>>) @@ (<<105>> :> <<105>>) @@ (<<111>> :> <<596>>) @@ (<<244>> :> <<111>>)
    @@ (<<417>> :> <<601, 720>>) @@ (<<117>> :> <<117>>) @@ (<<432>> :> <<623>>) @@ (<<121>> :> <<105>>)
    @@ (<<105, 97>> :> <<105, 601>>) @@ (<<432, 97>> :> <<623, 601>>) @@ (<<117, 97>> :> <<117, 601>>)

final_ipa_map ==
    (<<99>> :> <<107>>) @@ (<<99, 104>> :> <<99>>) @@ (<<109>> :> <<109>>) @@ (<<110>> :> <<110>>)
    @@ (<<110, 103>> :> <<331>>) @@ (<<110, 104>> :> <<626>>) @@ (<<112>> :> <<112>>) @@ (<<116>> :> <<116>>)

tone_map ==
    (<<>> :> <<49>>) @@ (<<768>> :> <<50>>) @@ (<<769>> :> <<51>>) @@ (<<777>> :> <<52>>)
    @@ (<<771>> :> <<53>>) @@ (<<803>> :> <<54>>)


_convert_initial_to_ipa(slf, initial) == dict_get(initial_ipa_map, initial, initial)

\* Tone marks are removed, character by character, before the look-up.
_convert_medial_to_ipa(slf, medial) ==
    LET base_medial == concat([ k \in 1..Len(medial) |-> normalize_char(slf, <<medial[k]>>) ])
    IN  dict_get(medial_ipa_map, base_medial, base_medial)

_convert_final_to_ipa(slf, final) == dict_get(final_ipa_map, final, final)

_convert_tone_to_ipa(slf, tone) == dict_get(tone_map, tone, <<>>)

\* The body of viet_g2p's loop: what one word appends to result.
viet_g2p_word(slf, word) ==
    IF is_vietnamese_syllable(slf, word)
    THEN LET parts == split_syllable_char(slf, word)
             initial == parts[1]
             medial == parts[2]
             final == parts[3]
             tone == get_tone(slf, word)
         IN  (IF truthy(initial) THEN _convert_initial_to_ipa(slf, initial[1]) ELSE <<>>)
             \o _convert_medial_to_ipa(slf, medial)
             \o (IF truthy(final) THEN _convert_final_to_ipa(slf, final[1]) ELSE <<>>)
             \o (IF tone # <<>> THEN _convert_tone_to_ipa(slf, tone) ELSE <<>>)
    ELSE word

\* viet_g2p without its else branch: a word that is no syllable is dropped.
viet_g2p_drops_unknown(slf, text) ==
    LET words == SelectSeq(str_split(text), LAMBDA w : is_vietnamese_syllable(slf, w))
    IN  str_join(<<32>>, [ k \in 1..Len(words) |-> viet_g2p_word(slf, words[k]) ])

viet_g2p(slf, text) ==
    LET words == str_split(text)
    IN  str_join(<<32>>, [ k \in 1..Len(words) |-> viet_g2p_word(slf, words[k]) ])

(***************************************************************************)
(* The codec as a state machine: one instance, and callers that invoke its *)
(* methods in any order on arguments fixed at the start.                   *)
(***************************************************************************)
\* Longest text drawn exhaustively over Alphabet.
MaxLen == 3

\* g i n h a, a-acute (U+00E1), capital T, space, newline.
Alphabet == {103, 105, 110, 104, 97, 225, 84, 32, 10}

\* "ti" U+1EBF "ng vi" U+1EC7 "t", its two words, "hello", "nghe", "T" U+00C1.
Examples ==
    { <<116, 105, 7871, 110, 103, 32, 118, 105, 7879, 116>>,
      <<116, 105, 7871, 110, 103>>,
      <<118, 105, 7879, 116>>,
      <<104, 101, 108, 108, 111>>,
      <<110, 103, 104, 101>>,
      <<84, 193>> }

Texts == UNION { [1..n -> Alphabet] : n \in 0..MaxLen } \cup Examples

\* Arguments of join_syllable_char: (initial, medial, final, tone).
\* initial: None, "t", "gi"; medial: "a", a-acute, "i" e-circumflex, "ia", "";
\* final: None, "ng", "c"; tone: None, "", U+0300, U+0301, U+0323.
JoinArgs ==
    { <<i, m, f, t>> :
        i \in {None, Some(<<116>>), Some(<<103, 105>>)},
        m \in {<<97>>, <<225>>, <<105, 234>>, <<105, 97>>, <<>>},
        f \in {None, Some(<<110, 103>>), Some(<<99>>)},
        t \in {None, Some(<<>>), Some(<<768>>), Some(<<769>>), Some(<<803>>)} }

\* Arguments of the calls made in sequence: "", "gi", "T" a-acute, "a a",
\* "ti" U+1EBF "ng", "nghe", "gin", "a" newline, and two argument tuples of join_syllable_char.
CallArgs ==
    { <<t>> : t \in { <<>>, <<103, 105>>, <<84, 225>>, <<97, 32, 97>>,
                      <<116, 105, 7871, 110, 103>>, <<110, 103, 104, 101>>,
                      <<103, 105, 110>>, <<97, 10>> } }
    \cup { <<Some(<<116>>), <<105, 234>>, Some(<<110, 103>>), Some(<<769>>)>>,
           <<None, <<97>>, None, None>> }

\* Calls made one after another on the shared instance.
MaxCalls == 3

\* split_syllable_char sorting with list.sort(key=len, reverse=True), in place.
self_after_sorting_in_place(slf, method) ==
    IF method = "split_syllable_char"
    THEN [ slf EXCEPT !.CHAR_LISTS =
             [ k \in DOMAIN @ |-> IF k \in {INITIAL, FINAL}
                                  THEN sorted_by_len_desc(@[k]) ELSE @[k] ] ]
    ELSE slf

\* The instance after a call of the method: no method assigns an attribute,
\* and sorted() builds a new list and leaves CHAR_LISTS as it is.
self_after(slf, method) == slf

Call_is_vietnamese_syllable(a) ==
    /\ Len(a) = 1
    /\ args' = a
    /\ op' = "is_vietnamese_syllable"
    /\ ret' = is_vietnamese_syllable(self, a[1])
    /\ self' = self_after(self, "is_vietnamese_syllable")

Call_get_tone(a) ==
    /\ Len(a) = 1
    /\ args' = a
    /\ op' = "get_tone"
    /\ ret' = get_tone(self, a[1])
    /\ self' = self_after(self, "get_tone")

Call_split_syllable_char(a) ==
    /\ Len(a) = 1
    /\ args' = a
    /\ op' = "split_syllable_char"
    /\ ret' = split_syllable_char(self, a[1])
    /\ self' = self_after(self, "split_syllable_char")

Call_join_syllable_char(a) ==
    /\ Len(a) = 4
    /\ args' = a
    /\ op' = "join_syllable_char"
    /\ ret' = join_syllable_char(self, a[1], a[2], a[3], a[4])
    /\ self' = self_after(self, "join_syllable_char")

\* join(*split(s), get_tone(s)): a syllable taken apart and put together.
rejoin(slf, s) ==
    LET parts == split_syllable_char(slf, s)
    IN  join_syllable_char(slf, parts[1], parts[2], parts[3], Some(get_tone(slf, s)))

Call_rejoin(a) ==
    /\ Len(a) = 1
    /\ args' = a
    /\ op' = "rejoin"
    /\ ret' = rejoin(self, a[1])
    /\ self' = self_after(self_after(self_after(self, "split_syllable_char"),
                                     "get_tone"), "join_syllable_char")

Call_viet_g2p(a) ==
    /\ Len(a) = 1
    /\ args' = a
    /\ op' = "viet_g2p"
    /\ ret' = viet_g2p(self, a[1])
    /\ self' = self_after(self, "viet_g2p")

(***************************************************************************)
(* The batch driver: main() of vall_e/emb/g2p_vn.py.                       *)
(*                                                                         *)
(* A path is [dir, name]: dir the sequence of its directory names, name    *)
(* the file name split at its dots ("a.phn.txt" is <<"a", "phn", "txt">>). *)
(* files maps each existing file to what it holds:                         *)
(*   "text"        Vietnamese text, read and converted without error;      *)
(*   "garbled"     bytes that are not UTF-8: f.read() raises               *)
(*                 UnicodeDecodeError;                                     *)
(*   "unspeakable" text on which vi2IPA raises;                            *)
(*   "empty"       a file opened for writing and not yet written;          *)
(*   "phones"      a phoneme file the driver wrote.                        *)
(***************************************************************************)
\* Text files found under the root folder at the start.
NumFiles == 2

\* Runs of the driver on the same root folder, each a process of its own (a
\* worker): started at any time, one after another or side by side.
NumWorkers == 2

Workers == 1..NumWorkers

\* The positional argument: the root folder.
folder == <<"data">>

\* --suffix, at its default ".txt".
suffix == <<"txt">>

\* data/a.txt, data/sub/b.txt, data/c.txt, data/sub/d.txt: the first NumFiles.
InputPaths ==
    { [ dir |-> IF k % 2 = 0 THEN folder \o <<"sub">> ELSE folder,
        name |-> <<(<<"a", "b", "c", "d">>)[k], "txt">> ] : k \in 1..NumFiles }

\* Path.rglob("*" + suffix) under root: every file below root whose name ends
\* with the suffix.
rglob(fs, root, suf) ==
    { q \in DOMAIN fs :
        /\ startswith(q.dir, root)
        /\ Len(q.name) > Len(suf)
        /\ endswith(q.name, suf) }

\* random.shuffle: any order of the files found.
shuffle(S) ==
    { order \in [1..Cardinality(S) -> S] :
        \A i, j \in 1..Cardinality(S) : order[i] = order[j] => i = j }

\* Path.stem: the name without its last suffix.
stem(name) == IF Len(name) > 1 THEN drop_last(name, 1) ELSE name

\* The output path of an input path: path.stem + ".phn.txt", beside the input
\* or, with --out_dir, at the same relative place under out_dir.
phone_path_of(od, path) ==
    [ dir |-> IF od # None THEN od[1] \o drop(path.dir, Len(folder)) ELSE path.dir,
      name |-> stem(path.name) \o <<"phn", "txt">> ]

\* The input worker w is at, and its output path.
path_of(w) == worker[w].paths[worker[w].idx]

phone_path(w) == phone_path_of(out_dir, path_of(w))

idle ==
    [ pc |-> "idle", paths |-> <<>>, idx |-> 1,
      created |-> {}, reported |-> {}, rerun |-> FALSE ]

\* A run that ended normally and printed no error.
succeeded(v) == worker[v].pc = "done" /\ worker[v].reported = {}

\* main() up to the loop: parse the arguments, collect and shuffle the paths.
\* created and reported record, for the run, the outputs opened for writing and
\* the inputs an error was printed for; rerun that the run starts after a run
\* that succeeded, with no other run under way or failed.
Start(w) ==
    /\ worker[w].pc = "idle"
    /\ \E order \in shuffle(rglob(files, folder, suffix)) :
          worker' = [ worker EXCEPT ![w] =
                        [ pc |-> "loop", paths |-> order, idx |-> 1,
                          created |-> {}, reported |-> {},
                          rerun |-> /\ \E v \in Workers : succeeded(v)
                                    /\ \A v \in Workers \ {w} :
                                          worker[v].pc = "idle" \/ succeeded(v) ] ]
    /\ UNCHANGED <<out_dir, read_only, files, opened>>

\* The head of the loop: the next path, its output path, and the skip of an
\* output that exists.
Loop(w) ==
    /\ worker[w].pc = "loop"
    /\ worker' = [ worker EXCEPT ![w].pc =
                     IF worker[w].idx > Len(worker[w].paths) THEN "done"
                     ELSE IF phone_path(w) \in DOMAIN files THEN "loop"
                     ELSE "read",
                   ![w].idx =
                     IF /\ worker[w].idx <= Len(worker[w].paths)
                        /\ phone_path(w) \in DOMAIN files
                     THEN @ + 1 ELSE @ ]
    /\ UNCHANGED <<out_dir, read_only, files, opened>>

\* graphs = _get_graphs(path), before the try: an exception leaves main().
Read(w) ==
    /\ worker[w].pc = "read"
    /\ worker' = [ worker EXCEPT ![w].pc =
                     IF files[path_of(w)] = "garbled" THEN "aborted" ELSE "encode" ]
    /\ UNCHANGED <<out_dir, read_only, files, opened>>

\* phones = encode(graphs), inside the try: an exception is printed and the
\* loop goes on.  What vi2IPA does with a phoneme file is not known: it
\* returns or raises.
Encode(w) ==
    /\ worker[w].pc = "encode"
    /\ \E raises \in IF files[path_of(w)] = "unspeakable" THEN {TRUE}
                     ELSE IF files[path_of(w)] = "phones" THEN {TRUE, FALSE}
                     ELSE {FALSE} :
          worker' = [ worker EXCEPT ![w].pc = IF raises THEN "loop" ELSE "open",
                                    ![w].idx = IF raises THEN @ + 1 ELSE @,
                                    ![w].reported =
                                       IF raises THEN @ \cup {path_of(w)} ELSE @ ]
    /\ UNCHANGED <<out_dir, read_only, files, opened>>

\* open(phone_path, "w"), inside the try: creates or truncates the file, or
\* raises when the directory cannot be written.
Open(w) ==
    /\ worker[w].pc = "open"
    /\ IF read_only
       THEN /\ worker' = [ worker EXCEPT ![w].pc = "loop", ![w].idx = @ + 1,
                                         ![w].reported = @ \cup {path_of(w)} ]
            /\ UNCHANGED <<files, opened>>
       ELSE /\ worker' = [ worker EXCEPT ![w].pc = "write",
                                         ![w].created = @ \cup {phone_path(w)} ]
            /\ files' = (phone_path(w) :> "empty") @@ files
            /\ opened' = opened \cup {<<w, phone_path(w)>>}
    /\ UNCHANGED <<out_dir, read_only>>

\* f.write(phones) and the end of the with block.
Write(w) ==
    /\ worker[w].pc = "write"
    /\ files' = (phone_path(w) :> "phones") @@ files
    /\ worker' = [ worker EXCEPT ![w].pc = "loop", ![w].idx = @ + 1 ]
    /\ UNCHANGED <<out_dir, read_only, opened>>

BatchInit ==
    /\ out_dir \in {None, Some(<<"out">>)}
    /\ read_only \in BOOLEAN
    /\ files \in [InputPaths -> {"text", "garbled", "unspeakable"}]
    /\ worker = [ w \in Workers |-> idle ]
    /\ opened = {}

BatchNext ==
    \/ \E w \in Workers : Start(w) /\ UNCHANGED codec_vars
    \/ \E w \in Workers : Loop(w) /\ UNCHANGED codec_vars
    \/ \E w \in Workers : Read(w) /\ UNCHANGED codec_vars
    \/ \E w \in Workers : Encode(w) /\ UNCHANGED codec_vars
    \/ \E w \in Workers : Open(w) /\ UNCHANGED codec_vars
    \/ \E w \in Workers : Write(w) /\ UNCHANGED codec_vars

(***************************************************************************)
(* The specifications.                                                     *)
(***************************************************************************)
\* No driver runs: an empty folder, no worker started.
BatchIdle ==
    /\ out_dir = None
    /\ read_only = FALSE
    /\ files = <<>>
    /\ worker = [ w \in Workers |-> idle ]
    /\ opened = {}

\* No call made yet on the new instance.
CodecIdle ==
    /\ self = __init__(VietnameseTextProcessor)
    /\ args = <<<<>>>>
    /\ op = "none"
    /\ ret = <<>>
    /\ calls = 0

\* Spec: the arguments are drawn at the start, once, from every text up to
\* MaxLen over Alphabet, and each method is applied to them.
CodecInit ==
    /\ self = __init__(VietnameseTextProcessor)
    /\ args \in { <<t>> : t \in Texts } \cup JoinArgs
    /\ op = "none"
    /\ ret = <<>>
    /\ calls = 0
    /\ BatchIdle

CodecNext ==
    \/ Call_is_vietnamese_syllable(args) /\ UNCHANGED <<calls, batch_vars>>
    \/ Call_get_tone(args) /\ UNCHANGED <<calls, batch_vars>>
    \/ Call_split_syllable_char(args) /\ UNCHANGED <<calls, batch_vars>>
    \/ Call_join_syllable_char(args) /\ UNCHANGED <<calls, batch_vars>>
    \/ Call_rejoin(args) /\ UNCHANGED <<calls, batch_vars>>
    \/ Call_viet_g2p(args) /\ UNCHANGED <<calls, batch_vars>>

Spec == CodecInit /\ [][CodecNext]_vars

\* SpecCalls: up to MaxCalls calls in a row, each on arguments of its own.
CallsInit == CodecIdle /\ BatchIdle

Counted(A) ==
    /\ calls < MaxCalls
    /\ calls' = calls + 1
    /\ A
    /\ UNCHANGED batch_vars

CallsNext ==
    \/ \E a \in CallArgs : Counted(Call_is_vietnamese_syllable(a))
    \/ \E a \in CallArgs : Counted(Call_get_tone(a))
    \/ \E a \in CallArgs : Counted(Call_split_syllable_char(a))
    \/ \E a \in CallArgs : Counted(Call_join_syllable_char(a))
    \/ \E a \in CallArgs : Counted(Call_rejoin(a))
    \/ \E a \in CallArgs : Counted(Call_viet_g2p(a))

SpecCalls == CallsInit /\ [][CallsNext]_vars

\* SpecBatch: NumWorkers runs of the driver on one folder.
SpecBatchInit == CodecIdle /\ BatchInit

SpecBatch == SpecBatchInit /\ [][BatchNext]_vars

(***************************************************************************)
(* Properties of the codec.                                                *)
(***************************************************************************)
\* The character c carries a tone mark: its base form differs from itself.
toned(c) == <<c>> \in DOMAIN VOWEL_TO_BASE

\* The tone names in the order TONE_MARKS declares them, which is the order
\* of the six columns of the vowel rows of CHAR_LISTS[MEDIAL].
tone_order ==
    << <<110, 103, 97, 110, 103>>, <<104, 117, 121, 7873, 110>>, <<115, 7855, 99>>,
       <<104, 7887, 105>>, <<110, 103, 227>>, <<110, 7863, 110, 103>> >>

\* The combining diacritic of the tone a vowel character carries.
mark_of(c) == TONE_MARKS[tone_order[(enumerate(CHAR_LISTS[MEDIAL])[<<c>>] % 6) + 1]]

has_tone(s) == \E k \in 1..Len(s) : toned(s[k])

first_toned(s) == s[CHOOSE k \in 1..Len(s) : toned(s[k]) /\ \A j \in 1..(k - 1) : ~toned(s[j])]

\* The tone a syllable carries: the mark of its first toned character, or ""
\* (level tone).
carried_tone(s) == IF has_tone(s) THEN mark_of(first_toned(s)) ELSE <<>>

\* A token: non-empty and free of whitespace.
is_token(s) == str_split(s) = <<s>>

\* "ti" U+1EBF "ng vi" U+1EC7 "t"
tieng_viet == <<116, 105, 7871, 110, 103, 32, 118, 105, 7879, 116>>

\* C1: viet_g2p renders every token that is_vietnamese_syllable accepts as
\* IPA(initial) + IPA(medial without tone) + IPA(final) + the digit 1..6 of
\* the tone the syllable carries, and "tieng viet" (with its tone marks) as
\* "ti" U+0259 U+014B "3 vi" U+0259 "t6".
C1_RendersIpaAndToneDigit ==
    op = "viet_g2p" =>
        /\ (is_token(args[1]) /\ is_vietnamese_syllable(self, args[1])) =>
              LET parts == split_syllable_char(self, args[1])
              IN  ret = (IF truthy(parts[1])
                         THEN _convert_initial_to_ipa(self, parts[1][1]) ELSE <<>>)
                        \o _convert_medial_to_ipa(self, parts[2])
                        \o (IF truthy(parts[3])
                            THEN _convert_final_to_ipa(self, parts[3][1]) ELSE <<>>)
                        \o tone_map[carried_tone(lower(args[1]))]
        /\ args[1] = tieng_viet =>
              ret = <<116, 105, 601, 331, 51, 32, 118, 105, 601, 116, 54>>

\* C2: for every s that is_vietnamese_syllable accepts, join_syllable_char of
\* the components split_syllable_char(s) returns and the tone get_tone(s)
\* returns is s up to case.
C2_RoundTrip ==
    (op = "rejoin" /\ is_vietnamese_syllable(self, args[1])) =>
        lower(ret) = lower(args[1])

\* "T" a-acute, accepted, taken apart and rejoined as "t" a-acute.
C2_Witness ==
    /\ op = "rejoin"
    /\ args = <<<<84, 225>>>>
    /\ is_vietnamese_syllable(self, args[1])
    /\ ret = <<116, 225>>

\* C3: for every token is_vietnamese_syllable accepts, the medial that
\* split_syllable_char returns is not empty.
C3_MedialNonEmpty ==
    (op = "split_syllable_char" /\ is_vietnamese_syllable(self, args[1])) =>
        ret[2] # <<>>

\* C4: get_tone returns the combining diacritic of the first character whose
\* base form differs from itself, and "" only when no character has a tone.
C4_GetToneReturnsDiacritic ==
    op = "get_tone" =>
        /\ has_tone(args[1]) => ret = mark_of(first_toned(args[1]))
        /\ ret = <<>> => ~has_tone(args[1])

\* A combining tone mark or a precomposed toned vowel.
is_tone_bearing(c) == toned(c) \/ (<<c>> \in Range(TONE_MARKS))

tone_count(s) == Cardinality({ k \in 1..Len(s) : is_tone_bearing(s[k]) })

\* C5: join_syllable_char with a non-empty tone (and a medial) returns the
\* syllable with exactly one tone diacritic, and join('t', 'i' e-circumflex,
\* 'ng', U+0301) is "ti" U+1EBF "ng": the mark is on the e-circumflex, as the
\* precomposed U+1EBF or as e-circumflex followed by U+0301.
C5_JoinMarksMainVowel ==
    op = "join_syllable_char" =>
        /\ (truthy(args[4]) /\ args[2] # <<>> /\ ~has_tone(args[2])) =>
              tone_count(ret) = 1
        /\ args = <<Some(<<116>>), <<105, 234>>, Some(<<110, 103>>), Some(<<769>>)>> =>
              ret \in { <<116, 105, 7871, 110, 103>>, <<116, 105, 234, 769, 110, 103>> }

\* C6: viet_g2p(text) has as many whitespace-delimited fields as text, the
\* k-th of them the rendering of the k-th word of text, none of them empty or
\* holding whitespace.
C6_OneFieldPerToken ==
    op = "viet_g2p" =>
        LET words == str_split(args[1])
            fields == str_split(ret)
        IN  /\ Len(fields) = Len(words)
            /\ \A k \in 1..Len(words) :
                  /\ fields[k] = viet_g2p_word(self, words[k])
                  /\ is_token(fields[k])

\* A text of several words, one a syllable and one not, rendered.
C6_Witness ==
    /\ op = "viet_g2p"
    /\ LET words == str_split(args[1])
       IN  /\ Len(words) >= 2
           /\ \E k \in 1..Len(words) : is_vietnamese_syllable(self, words[k])
           /\ \E k \in 1..Len(words) : ~is_vietnamese_syllable(self, words[k])
    /\ Len(str_split(ret)) = Len(str_split(args[1]))

\* What the method op returns on the arguments a when called on slf.
result_of(slf, method, a) ==
    CASE method = "is_vietnamese_syllable" -> is_vietnamese_syllable(slf, a[1])
      [] method = "get_tone" -> get_tone(slf, a[1])
      [] method = "split_syllable_char" -> split_syllable_char(slf, a[1])
      [] method = "join_syllable_char" -> join_syllable_char(slf, a[1], a[2], a[3], a[4])
      [] method = "rejoin" -> rejoin(slf, a[1])
      [] method = "viet_g2p" -> viet_g2p(slf, a[1])

\* C10: after any sequence of calls every table and derived index is what
\* construction made it, and what a call returns is what a newly constructed
\* instance returns on the same arguments.
C10_TablesReadOnly ==
    /\ self = __init__(VietnameseTextProcessor)
    /\ op # "none" => ret = result_of(__init__(VietnameseTextProcessor), op, args)

\* MaxCalls calls made, split_syllable_char among them, the last a rendering.
C10_Witness ==
    /\ calls = MaxCalls
    /\ op = "viet_g2p"
    /\ args = <<<<84, 225>>>>
    /\ self.CHAR_LISTS = CHAR_LISTS
    /\ self.CHAR_INDICES[INITIAL][<<110, 103, 104>>] = 15

(***************************************************************************)
(* Properties of the batch driver.                                         *)
(***************************************************************************)
\* The run of worker w is over: the loop ended, or an exception left main().
finished(w) == worker[w].pc \in {"done", "aborted"}

\* An input the driver can handle without any failure.
good(q) == files[q] = "text" /\ ~read_only

\* C7: a failure on one file never aborts the batch: when a run is over,
\* the output of every discovered input that itself can be handled exists.
C7_BadFileDoesNotAbort ==
    \A w \in Workers :
        finished(w) =>
            \A k \in 1..Len(worker[w].paths) :
                good(worker[w].paths[k]) =>
                    phone_path_of(out_dir, worker[w].paths[k]) \in DOMAIN files

\* C8: a run started after a run that succeeded, on the same folder with the
\* same arguments and with no other run under way, opens no file for writing.
C8_RerunWritesNothing ==
    \A w \in Workers :
        (/\ worker[w].rerun
         /\ \A v \in Workers \ {w} : worker[v].pc = "idle" \/ succeeded(v))
        => worker[w].created = {}

\* C9: no output file is opened for writing by more than one worker.
C9_NoWriteContention ==
    \A w, v \in Workers :
        \A q \in DOMAIN files :
            (<<w, q>> \in opened /\ <<v, q>> \in opened) => w = v

\* The longest of a set of strings, or None when the set is empty.
longest_of(S) ==
    IF S = {} THEN None
    ELSE Some(CHOOSE x \in S : \A y \in S : Len(y) <= Len(x))

\* C11: split_syllable_char returns as initial the longest entry of the
\* initial inventory that is a prefix of the lower-cased token (None if there
\* is none), as final the longest entry of the final inventory that is a
\* suffix of what remains (None if there is none), and as medial the rest, so
\* that initial + medial + final is the lower-cased token.
C11_LongestMatchPartition ==
    op = "split_syllable_char" =>
        LET token == lower(args[1])
            initial == longest_of({ x \in Range(CHAR_LISTS[INITIAL]) :
                                      startswith(token, x) })
            rest == IF initial = None THEN token ELSE drop(token, Len(initial[1]))
            final == longest_of({ x \in Range(CHAR_LISTS[FINAL]) : endswith(rest, x) })
            str(o) == IF o = None THEN <<>> ELSE o[1]
        IN  /\ ret[1] = initial
            /\ ret[3] = final
            /\ ret[2] = drop_last(rest, Len(str(final)))
            /\ str(ret[1]) \o ret[2] \o str(ret[3]) = token

\* "nga" split: of the prefixes "n" and "ng" the longer is the initial.
C11_Witness ==
    /\ op = "split_syllable_char"
    /\ args = <<<<110, 103, 97>>>>
    /\ ret = <<Some(<<110, 103>>), <<97>>, None>>
====
